---- MODULE Spec2Model ----
(***************************************************************************)
(* The code-breaking game of src/hirn.c: the secret, the current guess,    *)
(* the two-pass scoring of evaluate_guess, the attempt and time            *)
(* bookkeeping and the phases driven by the main loop of hirn_main.        *)
(*                                                                         *)
(* src/hirn.c holds two builds of the game: the six-colour one (lines      *)
(* 1-590), whose OK key restarts a finished game, and the four-colour one  *)
(* (lines 591-1069), which has no restart.  variant says which one runs.   *)
(*                                                                         *)
(* Arrays are functions on 0..n-1, as in C.  Every peg array is declared   *)
(* with NUM_PEGS entries (src/hirn.c:60-61, 68-69), so a loop bound        *)
(* NUM_PEGS is the length of the array the loop walks; the operators take  *)
(* it from the array, which lets them run on the four-peg example of the   *)
(* documentation as well as on the arrays of the scaled-down game.         *)
(***************************************************************************)
EXTENDS Integers, Sequences, FiniteSets, TLC

\* ------------------------------------------------------------- bounds
\* The game's sizes, scaled down (the builds have 4 pegs, 6 or 4 colours,
\* 20 or 99 attempts and 20 or 90 minutes).
NUM_PEGS == 2
NUM_COLORS == 2
MAX_ATTEMPTS == 3
MAX_TIME_MS == 2
\* How far past the time limit the clock can get before the main loop, which
\* waits at most 100 ms for an event (src/hirn.c:477), passes its check.
MaxLag == 1
\* The restarts of one run of the program.
MaxResets == 1
\* The sizes of the inputs the scoring is applied to on its own.
EvalPegs == 3
EvalColors == 3
\* The sizes the secret generation is run with on its own, and the largest
\* value rand() returns.
GenPegs == 3
GenColors == 3
RandMax == 3
\* The clock values noted in one run: start-up and the pauses and resumes.
MaxMarks == 4

\* ---------------------------------------------------------- constants
COLOR_REPEAT == FALSE
COLOR_NONE == 0
FEEDBACK_NONE == 0
FEEDBACK_BLACK == 1
FEEDBACK_WHITE == 2
STATE_PLAYING == "PLAYING"
STATE_PAUSED == "PAUSED"
STATE_WON == "WON"
STATE_LOST == "LOST"
STATE_REVEAL == "REVEAL"
GameState == {STATE_PLAYING, STATE_PAUSED, STATE_WON, STATE_LOST, STATE_REVEAL}
Variants == {"six", "four"}

\* uint32_t arithmetic (start_time, elapsed_time, furi_get_tick()), on a word
\* scaled down with the time limit: the clock wraps at TickWrap, the least
\* word in which the time limit and the loop's lag still fit, as they do in
\* 32 bits.
TickWrap == MAX_TIME_MS + MaxLag + 1
U32(x) == x % TickWrap

\* generate_secret_code not running.
GenIdle == [pc |-> "idle"]

VARIABLES
    variant,          \* which build runs
    state,            \* CodeBreakerState.state
    secret_code,      \* CodeBreakerState.secret_code
    current_guess,    \* CodeBreakerState.current_guess
    cursor_position,
    attempts_used,
    start_time,
    elapsed_time,
    guess_history,
    feedback_history,
    running,          \* hirn_main's loop flag
    pc,               \* where the main loop is: "get", "check" or "done"
    now,              \* furi_get_tick()
    resets,           \* restarts so far (bounds the run, not read by the game)
    gen,              \* generate_secret_code's configuration, locals and position
    marks,            \* the clock at start-up and at each pause and resume
                      \* since, when they are noted (not read by the game)
    played            \* the clock ticks of this round that passed in phase
                      \* Playing (not read by the game)

vars == <<variant, state, secret_code, current_guess, cursor_position,
          attempts_used, start_time, elapsed_time, guess_history,
          feedback_history, running, pc, now, resets, gen, marks,
          played>>

\* The indices of an array of n entries, and its length.
Idx(n) == 0 .. (n - 1)
Size(a) == Cardinality(DOMAIN a)
\* The C array holding the entries of a sequence.
Arr(s) == [i \in Idx(Len(s)) |-> s[i + 1]]

\* ------------------------------------------------- generate_secret_code
\* The codes the slot-by-slot draw can end with: slot i takes any colour of
\* 1..NUM_COLORS, and without COLOR_REPEAT the do-while only leaves with a
\* colour no earlier slot took.
RECURSIVE FillSlots(_, _, _)
FillSlots(i, used, code) ==
    IF i >= Size(code) THEN {code}
    ELSE UNION { FillSlots(i + 1, used \cup {c}, [code EXCEPT ![i] = c]) :
                   c \in {c \in 1 .. NUM_COLORS : COLOR_REPEAT \/ c \notin used} }

generate_secret_code == FillSlots(0, {}, [i \in Idx(NUM_PEGS) |-> COLOR_NONE])

\* The same function one call of rand() at a time.  gen holds what the build
\* fixes (N: NUM_COLORS, rep: COLOR_REPEAT) and the locals (i, used); the
\* number of pegs is the length of secret_code, which the function fills.
GenStart(n, r) ==
    [ pc   |-> "draw",
      N    |-> n,
      rep  |-> r,
      i    |-> 0,
      used |-> [c \in 0 .. n |-> FALSE] ]

\* The loop position after slot i is filled.
GenAfter(i) == IF i + 1 < Size(secret_code) THEN "draw" ELSE "done"

\* GenDraw without used[color] = true.
GenDrawNoMark ==
    /\ gen.pc = "draw"
    /\ \E r \in 0 .. RandMax :
          LET color == (r % gen.N) + 1
          IN  IF ~gen.rep /\ gen.used[color]
              THEN UNCHANGED <<secret_code, gen>>
              ELSE /\ secret_code' = [secret_code EXCEPT ![gen.i] = color]
                   /\ gen' = [gen EXCEPT !.i = @ + 1, !.pc = GenAfter(gen.i)]
    /\ UNCHANGED <<variant, state, current_guess, cursor_position, attempts_used,
                   start_time, elapsed_time, guess_history, feedback_history,
                   running, pc, now, resets, marks, played>>

\* One call of rand(): with COLOR_REPEAT the colour drawn fills slot i; without
\* it a colour already used sends the do-while round again, and a new one is
\* marked used and fills slot i.
GenDraw ==
    /\ gen.pc = "draw"
    /\ \E r \in 0 .. RandMax :
          LET color == (r % gen.N) + 1
          IN  IF ~gen.rep /\ gen.used[color]
              THEN UNCHANGED <<secret_code, gen>>
              ELSE /\ secret_code' = [secret_code EXCEPT ![gen.i] = color]
                   /\ gen' = [gen EXCEPT !.i = @ + 1,
                                         !.used[color] = ~gen.rep,
                                         !.pc = GenAfter(gen.i)]
    /\ UNCHANGED <<variant, state, current_guess, cursor_position, attempts_used,
                   start_time, elapsed_time, guess_history, feedback_history,
                   running, pc, now, resets, marks, played>>

\* ------------------------------------------------------ guess checks
\* is_guess_complete returning after its first slot.
is_guess_completeFirst(guess) == guess[0] # COLOR_NONE

is_guess_complete(guess) == \A i \in DOMAIN guess : guess[i] # COLOR_NONE

\* is_guess_different comparing with every recorded attempt.
is_guess_differentFromAll(guess, history, used) ==
    \A a \in Idx(used) : \E i \in DOMAIN guess : guess[i] # history[a][i]

is_guess_different(guess, history, used) ==
    \/ used = 0
    \/ \E i \in DOMAIN guess : guess[i] # history[used - 1][i]

\* ------------------------------------------------------ evaluate_guess
\* The locals of evaluate_guess after its initialisation: the feedback row
\* (all FEEDBACK_NONE), feedback_idx, secret_used and guess_used.  log notes,
\* for each feedback peg written, its kind and the guess slot and secret slot
\* whose comparison wrote it.
EvalStart(guess) ==
    [ fb          |-> [i \in DOMAIN guess |-> FEEDBACK_NONE],
      idx         |-> 0,
      secret_used |-> [i \in DOMAIN guess |-> FALSE],
      guess_used  |-> [i \in DOMAIN guess |-> FALSE],
      log         |-> << >> ]

\* BlackStep without feedback_idx++.
BlackStepNoAdvance(guess, secret, i, L) ==
    IF guess[i] = secret[i]
    THEN [L EXCEPT !.fb[L.idx] = FEEDBACK_BLACK,
                   !.secret_used[i] = TRUE,
                   !.guess_used[i] = TRUE,
                   !.log = Append(@, <<FEEDBACK_BLACK, i, i>>)]
    ELSE L

\* First pass body: an exact match writes a black peg and uses both slots.
BlackStep(guess, secret, i, L) ==
    IF guess[i] = secret[i]
    THEN [L EXCEPT !.fb[L.idx] = FEEDBACK_BLACK,
                   !.idx = @ + 1,
                   !.secret_used[i] = TRUE,
                   !.guess_used[i] = TRUE,
                   !.log = Append(@, <<FEEDBACK_BLACK, i, i>>)]
    ELSE L

RECURSIVE FirstPass(_, _, _, _)
FirstPass(guess, secret, i, L) ==
    IF i >= Size(guess) THEN L
    ELSE FirstPass(guess, secret, i + 1, BlackStep(guess, secret, i, L))

\* WhiteScan without secret_used[j] = true.
RECURSIVE WhiteScanNoMark(_, _, _, _, _)
WhiteScanNoMark(guess, secret, i, j, L) ==
    IF j >= Size(secret) THEN L
    ELSE IF ~L.secret_used[j] /\ guess[i] = secret[j]
         THEN [L EXCEPT !.fb[L.idx] = FEEDBACK_WHITE,
                        !.idx = @ + 1,
                        !.log = Append(@, <<FEEDBACK_WHITE, i, j>>)]
         ELSE WhiteScanNoMark(guess, secret, i, j + 1, L)

\* Second pass, inner loop from j: the first unused secret slot of the guess
\* slot's colour writes a white peg, is used, and ends the scan (break).
RECURSIVE WhiteScan(_, _, _, _, _)
WhiteScan(guess, secret, i, j, L) ==
    IF j >= Size(secret) THEN L
    ELSE IF ~L.secret_used[j] /\ guess[i] = secret[j]
         THEN [L EXCEPT !.fb[L.idx] = FEEDBACK_WHITE,
                        !.idx = @ + 1,
                        !.secret_used[j] = TRUE,
                        !.log = Append(@, <<FEEDBACK_WHITE, i, j>>)]
         ELSE WhiteScan(guess, secret, i, j + 1, L)

\* WhiteStep without the guess_used test.
WhiteStepAll(guess, secret, i, L) == WhiteScan(guess, secret, i, 0, L)

\* Second pass body: only guess slots the first pass left unused are scanned.
WhiteStep(guess, secret, i, L) ==
    IF ~L.guess_used[i] THEN WhiteScan(guess, secret, i, 0, L) ELSE L

RECURSIVE SecondPass(_, _, _, _)
SecondPass(guess, secret, i, L) ==
    IF i >= Size(guess) THEN L
    ELSE SecondPass(guess, secret, i + 1, WhiteStep(guess, secret, i, L))

\* The locals when both passes are done.
Score(guess, secret) ==
    SecondPass(guess, secret, 0, FirstPass(guess, secret, 0, EvalStart(guess)))

\* The win check stopping after its first slot.
IsWinFirst(guess, secret) == guess[0] = secret[0]

\* The win check: every slot of the guess equals the secret's.
IsWin(guess, secret) == \A i \in DOMAIN guess : guess[i] = secret[i]

\* PhaseAfterGuess without the test of the attempts.
PhaseAfterGuessWinOnly(won, used) == IF won THEN STATE_WON ELSE state

\* PhaseAfterGuess with > for >=.
PhaseAfterGuessLate(won, used) ==
    IF won THEN STATE_WON
    ELSE IF used > MAX_ATTEMPTS THEN STATE_LOST
    ELSE state

\* The phase evaluate_guess leaves: won, or lost on the last attempt, or as it was.
PhaseAfterGuess(won, used) ==
    IF won THEN STATE_WON
    ELSE IF used >= MAX_ATTEMPTS THEN STATE_LOST
    ELSE state

\* evaluate_guess emptying the current guess once it is saved.
evaluate_guessClearGuess ==
    LET L   == Score(current_guess, secret_code)
        won == IsWin(current_guess, secret_code)
        ph  == PhaseAfterGuess(won, attempts_used + 1)
    IN  /\ feedback_history' = [feedback_history EXCEPT ![attempts_used] = L.fb]
        /\ guess_history' = [guess_history EXCEPT ![attempts_used] = current_guess]
        /\ attempts_used' = attempts_used + 1
        /\ state' = ph
        /\ elapsed_time' = IF ph \in {STATE_WON, STATE_LOST}
                           THEN U32(elapsed_time + U32(now - start_time))
                           ELSE elapsed_time
        /\ current_guess' = [i \in DOMAIN current_guess |-> COLOR_NONE]
        /\ UNCHANGED <<secret_code, cursor_position, start_time>>

\* evaluate_guess counting the attempt before it saves the guess.
evaluate_guessEarlyCount ==
    LET L   == Score(current_guess, secret_code)
        won == IsWin(current_guess, secret_code)
        ph  == PhaseAfterGuess(won, attempts_used + 1)
    IN  /\ feedback_history' = [feedback_history EXCEPT ![attempts_used] = L.fb]
        /\ guess_history' = [guess_history EXCEPT ![attempts_used + 1] = current_guess]
        /\ attempts_used' = attempts_used + 1
        /\ state' = ph
        /\ elapsed_time' = IF ph \in {STATE_WON, STATE_LOST}
                           THEN U32(elapsed_time + U32(now - start_time))
                           ELSE elapsed_time
        /\ UNCHANGED <<secret_code, current_guess, cursor_position, start_time>>

\* evaluate_guess adding the running stretch to elapsed_time after every
\* attempt.
evaluate_guessAddTime ==
    LET L   == Score(current_guess, secret_code)
        won == IsWin(current_guess, secret_code)
        ph  == PhaseAfterGuess(won, attempts_used + 1)
    IN  /\ feedback_history' = [feedback_history EXCEPT ![attempts_used] = L.fb]
        /\ guess_history' = [guess_history EXCEPT ![attempts_used] = current_guess]
        /\ attempts_used' = attempts_used + 1
        /\ state' = ph
        /\ elapsed_time' = U32(elapsed_time + U32(now - start_time))
        /\ UNCHANGED <<secret_code, current_guess, cursor_position, start_time>>

\* evaluate_guess marking the matched slots in the secret itself, not in its
\* local secret_used.
evaluate_guessMarkSecret ==
    LET L   == Score(current_guess, secret_code)
        won == IsWin(current_guess, secret_code)
        ph  == PhaseAfterGuess(won, attempts_used + 1)
    IN  /\ feedback_history' = [feedback_history EXCEPT ![attempts_used] = L.fb]
        /\ guess_history' = [guess_history EXCEPT ![attempts_used] = current_guess]
        /\ attempts_used' = attempts_used + 1
        /\ state' = ph
        /\ elapsed_time' = IF ph \in {STATE_WON, STATE_LOST}
                           THEN U32(elapsed_time + U32(now - start_time))
                           ELSE elapsed_time
        /\ secret_code' = [i \in DOMAIN secret_code |->
                              IF L.secret_used[i] THEN COLOR_NONE
                              ELSE secret_code[i]]
        /\ UNCHANGED <<current_guess, cursor_position, start_time>>

\* evaluate_guess(state), called at clock value now.
evaluate_guess ==
    LET L   == Score(current_guess, secret_code)
        won == IsWin(current_guess, secret_code)
        ph  == PhaseAfterGuess(won, attempts_used + 1)
    IN  /\ feedback_history' = [feedback_history EXCEPT ![attempts_used] = L.fb]
        /\ guess_history' = [guess_history EXCEPT ![attempts_used] = current_guess]
        /\ attempts_used' = attempts_used + 1
        /\ state' = ph
        /\ elapsed_time' = IF ph \in {STATE_WON, STATE_LOST}
                           THEN U32(elapsed_time + U32(now - start_time))
                           ELSE elapsed_time
        /\ UNCHANGED <<secret_code, current_guess, cursor_position, start_time>>

\* ------------------------------------------------------------- start-up
\* hirn_main up to its loop: memset, the field initialisation, the secret.
Init ==
    /\ variant \in Variants
    /\ state = STATE_PLAYING
    /\ cursor_position = 0
    /\ attempts_used = 0
    /\ now \in Idx(TickWrap)
    /\ start_time = now
    /\ elapsed_time = 0
    /\ current_guess = [i \in Idx(NUM_PEGS) |-> COLOR_NONE]
    /\ guess_history = [a \in Idx(MAX_ATTEMPTS) |-> [i \in Idx(NUM_PEGS) |-> COLOR_NONE]]
    /\ feedback_history = [a \in Idx(MAX_ATTEMPTS) |-> [i \in Idx(NUM_PEGS) |-> FEEDBACK_NONE]]
    /\ secret_code \in generate_secret_code
    /\ running = TRUE
    /\ pc = "get"
    /\ resets = 0
    /\ gen = GenIdle
    /\ marks = << >>
    /\ played = 0

\* ------------------------------------------------------------ main loop
\* One pass of the while loop is an event (or the 100 ms time-out of
\* furi_message_queue_get) handled at pc = "get", then the time-limit check
\* at pc = "check".
Handled == pc = "get" /\ pc' = "check"

Frame == UNCHANGED <<variant, now, gen>>

\* The pauses and resumes noted: while marks is kept (it is not empty), a step
\* between Playing and Paused appends the clock; marks is dropped by a restart
\* and when it is full.
\* The ticks played start again at 0 with a restart.
Logged ==
    /\ marks' = IF marks = << >> THEN marks
                ELSE IF resets' # resets THEN << >>
                ELSE IF {state, state'} = {STATE_PLAYING, STATE_PAUSED}
                THEN IF Len(marks) < MaxMarks THEN Append(marks, now) ELSE << >>
                ELSE marks
    /\ played' = IF resets' # resets THEN 0 ELSE played

\* PressBack pausing from every phase but Paused.
PressBackAnyPhase ==
    /\ Handled /\ Frame
    /\ IF state = STATE_PAUSED
       THEN /\ running' = FALSE
            /\ UNCHANGED <<state, elapsed_time>>
       ELSE /\ state' = STATE_PAUSED
            /\ elapsed_time' = U32(elapsed_time + U32(now - start_time))
            /\ UNCHANGED running
    /\ UNCHANGED <<secret_code, current_guess, cursor_position, attempts_used,
                   start_time, guess_history, feedback_history, resets>>
    /\ Logged

\* Short press of Back: leave when paused, pause when playing.
PressBack ==
    /\ Handled /\ Frame
    /\ IF state = STATE_PAUSED
       THEN /\ running' = FALSE
            /\ UNCHANGED <<state, elapsed_time>>
       ELSE IF state = STATE_PLAYING
       THEN /\ state' = STATE_PAUSED
            /\ elapsed_time' = U32(elapsed_time + U32(now - start_time))
            /\ UNCHANGED running
       ELSE UNCHANGED <<state, elapsed_time, running>>
    /\ UNCHANGED <<secret_code, current_guess, cursor_position, attempts_used,
                   start_time, guess_history, feedback_history, resets>>
    /\ Logged

\* Press or repeat of Left.
PressLeft ==
    /\ Handled /\ Frame
    /\ cursor_position' = IF state = STATE_PLAYING /\ cursor_position > 0
                          THEN cursor_position - 1
                          ELSE cursor_position
    /\ UNCHANGED <<state, secret_code, current_guess, attempts_used, start_time,
                   elapsed_time, guess_history, feedback_history, running, resets>>
    /\ Logged

\* PressRight moving the cursor from the last slot, too.
PressRightPastEnd ==
    /\ Handled /\ Frame
    /\ cursor_position' = IF state = STATE_PLAYING /\ cursor_position <= NUM_PEGS - 1
                          THEN cursor_position + 1
                          ELSE cursor_position
    /\ UNCHANGED <<state, secret_code, current_guess, attempts_used, start_time,
                   elapsed_time, guess_history, feedback_history, running, resets>>
    /\ Logged

\* Press or repeat of Right.
PressRight ==
    /\ Handled /\ Frame
    /\ cursor_position' = IF state = STATE_PLAYING /\ cursor_position < NUM_PEGS - 1
                          THEN cursor_position + 1
                          ELSE cursor_position
    /\ UNCHANGED <<state, secret_code, current_guess, attempts_used, start_time,
                   elapsed_time, guess_history, feedback_history, running, resets>>
    /\ Logged

\* NextColor wrapping one colour early.
NextColorSkipLast(c) == IF c + 1 >= NUM_COLORS THEN COLOR_NONE ELSE c + 1

\* The colour after Up.
NextColor(c) == IF c + 1 > NUM_COLORS THEN COLOR_NONE ELSE c + 1

\* The colour after Down.
PrevColor(c) == IF c - 1 < COLOR_NONE THEN NUM_COLORS ELSE c - 1

\* PressUp without the test of the phase.
PressUpAnyPhase ==
    /\ Handled /\ Frame
    /\ current_guess' = [current_guess EXCEPT ![cursor_position] = NextColor(@)]
    /\ UNCHANGED <<state, secret_code, cursor_position, attempts_used, start_time,
                   elapsed_time, guess_history, feedback_history, running, resets>>
    /\ Logged

\* Press or repeat of Up.
PressUp ==
    /\ Handled /\ Frame
    /\ current_guess' = IF state = STATE_PLAYING
                        THEN [current_guess EXCEPT ![cursor_position] = NextColor(@)]
                        ELSE current_guess
    /\ UNCHANGED <<state, secret_code, cursor_position, attempts_used, start_time,
                   elapsed_time, guess_history, feedback_history, running, resets>>
    /\ Logged

\* Press or repeat of Down.
PressDown ==
    /\ Handled /\ Frame
    /\ current_guess' = IF state = STATE_PLAYING
                        THEN [current_guess EXCEPT ![cursor_position] = PrevColor(@)]
                        ELSE current_guess
    /\ UNCHANGED <<state, secret_code, cursor_position, attempts_used, start_time,
                   elapsed_time, guess_history, feedback_history, running, resets>>
    /\ Logged

\* The OK key submits when the game is on and the guess is complete and new.
CanSubmit ==
    /\ state = STATE_PLAYING
    /\ is_guess_complete(current_guess)
    /\ is_guess_different(current_guess, guess_history, attempts_used)

\* Resume without start_time = furi_get_tick().
ResumeKeepStart ==
    /\ state' = STATE_PLAYING
    /\ UNCHANGED <<secret_code, current_guess, cursor_position, attempts_used,
                   start_time, elapsed_time, guess_history, feedback_history>>

\* Back to playing from Paused or from the revealed code: the clock restarts.
Resume ==
    /\ state' = STATE_PLAYING
    /\ start_time' = now
    /\ UNCHANGED <<secret_code, current_guess, cursor_position, attempts_used,
                   elapsed_time, guess_history, feedback_history>>

\* ResetGame without the call of generate_secret_code.
ResetGameOldSecret ==
    /\ state' = STATE_PLAYING
    /\ cursor_position' = 0
    /\ attempts_used' = 0
    /\ start_time' = now
    /\ elapsed_time' = 0
    /\ current_guess' = [i \in Idx(NUM_PEGS) |-> COLOR_NONE]
    /\ UNCHANGED <<secret_code, guess_history, feedback_history>>

\* A new round (six-colour build): the history arrays are not cleared.
ResetGame ==
    /\ state' = STATE_PLAYING
    /\ cursor_position' = 0
    /\ attempts_used' = 0
    /\ start_time' = now
    /\ elapsed_time' = 0
    /\ current_guess' = [i \in Idx(NUM_PEGS) |-> COLOR_NONE]
    /\ secret_code' \in generate_secret_code
    /\ UNCHANGED <<guess_history, feedback_history>>

\* Press or repeat of OK.
PressOk ==
    /\ Handled /\ Frame
    /\ UNCHANGED running
    /\ IF CanSubmit
       THEN evaluate_guess /\ UNCHANGED resets
       ELSE IF state = STATE_PAUSED \/ state = STATE_REVEAL
       THEN Resume /\ UNCHANGED resets
       ELSE IF variant = "six" /\ (state = STATE_WON \/ state = STATE_LOST)
       THEN resets < MaxResets /\ ResetGame /\ resets' = resets + 1
       ELSE UNCHANGED <<state, secret_code, current_guess, cursor_position,
                        attempts_used, start_time, elapsed_time, guess_history,
                        feedback_history, resets>>
    /\ Logged

\* Long press of Back: leave.
LongBack ==
    /\ Handled /\ Frame
    /\ running' = FALSE
    /\ UNCHANGED <<state, secret_code, current_guess, cursor_position,
                   attempts_used, start_time, elapsed_time, guess_history,
                   feedback_history, resets>>
    /\ Logged

\* LongOk revealing the code from every phase but Revealing.
LongOkAnyPhase ==
    /\ Handled /\ Frame
    /\ UNCHANGED <<running, resets>>
    /\ IF state = STATE_REVEAL
       THEN Resume
       ELSE /\ elapsed_time' = U32(elapsed_time + U32(now - start_time))
            /\ state' = STATE_REVEAL
            /\ UNCHANGED <<secret_code, current_guess, cursor_position,
                           attempts_used, start_time, guess_history,
                           feedback_history>>
    /\ Logged

\* LongOk going back to Playing from every phase but Playing.
LongOkHideFromAny ==
    /\ Handled /\ Frame
    /\ UNCHANGED <<running, resets>>
    /\ IF state = STATE_PLAYING
       THEN /\ elapsed_time' = U32(elapsed_time + U32(now - start_time))
            /\ state' = STATE_REVEAL
            /\ UNCHANGED <<secret_code, current_guess, cursor_position,
                           attempts_used, start_time, guess_history,
                           feedback_history>>
       ELSE Resume
    /\ Logged

\* Long press of OK: reveal the code, or hide it again.
LongOk ==
    /\ Handled /\ Frame
    /\ UNCHANGED <<running, resets>>
    /\ IF state = STATE_PLAYING
       THEN /\ elapsed_time' = U32(elapsed_time + U32(now - start_time))
            /\ state' = STATE_REVEAL
            /\ UNCHANGED <<secret_code, current_guess, cursor_position,
                           attempts_used, start_time, guess_history,
                           feedback_history>>
       ELSE IF state = STATE_REVEAL
       THEN Resume
       ELSE UNCHANGED <<state, secret_code, current_guess, cursor_position,
                        attempts_used, start_time, elapsed_time, guess_history,
                        feedback_history>>
    /\ Logged

\* No event within 100 ms, or an event no branch handles (a release, a short
\* press, a repeat of Back).
NoEvent ==
    /\ Handled /\ Frame
    /\ UNCHANGED <<state, secret_code, current_guess, cursor_position,
                   attempts_used, start_time, elapsed_time, guess_history,
                   feedback_history, running, resets>>
    /\ Logged

\* current_time without the time kept from before the last pause.
current_timeSinceStart == U32(now - start_time)

\* The time played so far, as the main loop computes it.
current_time == U32(elapsed_time + U32(now - start_time))

\* TimeCheck with > for >=.
TimeCheckStrict ==
    /\ pc = "check" /\ Frame
    /\ pc' = IF running THEN "get" ELSE "done"
    /\ IF state = STATE_PLAYING /\ current_time > MAX_TIME_MS
       THEN /\ state' = STATE_LOST
            /\ elapsed_time' = MAX_TIME_MS
       ELSE UNCHANGED <<state, elapsed_time>>
    /\ UNCHANGED <<secret_code, current_guess, cursor_position, attempts_used,
                   start_time, guess_history, feedback_history, running, resets>>
    /\ Logged

\* TimeCheck with == for >=.
TimeCheckExact ==
    /\ pc = "check" /\ Frame
    /\ pc' = IF running THEN "get" ELSE "done"
    /\ IF state = STATE_PLAYING /\ current_time = MAX_TIME_MS
       THEN /\ state' = STATE_LOST
            /\ elapsed_time' = MAX_TIME_MS
       ELSE UNCHANGED <<state, elapsed_time>>
    /\ UNCHANGED <<secret_code, current_guess, cursor_position, attempts_used,
                   start_time, guess_history, feedback_history, running, resets>>
    /\ Logged

\* The end of a pass: the time-limit check, then the loop condition.
TimeCheck ==
    /\ pc = "check" /\ Frame
    /\ pc' = IF running THEN "get" ELSE "done"
    /\ IF state = STATE_PLAYING /\ current_time >= MAX_TIME_MS
       THEN /\ state' = STATE_LOST
            /\ elapsed_time' = MAX_TIME_MS
       ELSE UNCHANGED <<state, elapsed_time>>
    /\ UNCHANGED <<secret_code, current_guess, cursor_position, attempts_used,
                   start_time, guess_history, feedback_history, running, resets>>
    /\ Logged

\* The clock advances and wraps.  While the game is on it gets at most MaxLag
\* past the time limit before the main loop passes its check.
Tick ==
    /\ pc # "done"
    /\ state = STATE_PLAYING =>
           elapsed_time + U32(now - start_time) < MAX_TIME_MS + MaxLag
    /\ now' = U32(now + 1)
    /\ played' = IF state = STATE_PLAYING THEN played + 1 ELSE played
    /\ UNCHANGED <<variant, state, secret_code, current_guess, cursor_position,
                   attempts_used, start_time, elapsed_time, guess_history,
                   feedback_history, running, pc, resets, gen, marks>>

Next ==
    \/ PressBack
    \/ PressLeft
    \/ PressRight
    \/ PressUp
    \/ PressDown
    \/ PressOk
    \/ LongBack
    \/ LongOk
    \/ NoEvent
    \/ TimeCheck
    \/ Tick

Spec == Init /\ [][Next]_vars

\* ------------------------------------------------------ the draw callback
\* The draw callback reads the game and the clock and writes to the canvas.
\* It changes nothing of the game, so it is an operator on the state.

\* total_time adding the time since start_time in every phase.
total_timeAnyPhase ==
    IF current_time > MAX_TIME_MS THEN MAX_TIME_MS ELSE current_time

\* The time played that the callback computes, capped at the time limit.
total_time ==
    LET t == IF state = STATE_PLAYING
             THEN U32(elapsed_time + U32(now - start_time))
             ELSE elapsed_time
    IN  IF t > MAX_TIME_MS THEN MAX_TIME_MS ELSE t

\* The clock counts milliseconds; the model's clock unit stands for a second.
TicksPerSecond == 1

\* The minutes and seconds written to the HUD.
time_str ==
    LET seconds == total_time \div TicksPerSecond
    IN  [minutes |-> seconds \div 60, seconds |-> seconds % 60]

\* The indices at which the callback reads guess_history and
\* feedback_history: the last attempt's, in the six-colour build once there is
\* an attempt, in the four-colour build also whenever the game is over.
HistoryIndex ==
    IF variant = "six"
    THEN IF attempts_used > 0 THEN {attempts_used - 1} ELSE {}
    ELSE IF attempts_used > 0 \/ state = STATE_WON \/ state = STATE_LOST
         THEN {attempts_used - 1}
         ELSE {}

\* What a read of row i of a history can return: the row, or, outside the
\* array, whatever lies there.  draw_feedback tells black, white and
\* anything else apart.
ReadRow(history, i) ==
    IF i \in DOMAIN history
    THEN {history[i]}
    ELSE [Idx(NUM_PEGS) -> {FEEDBACK_NONE, FEEDBACK_BLACK, FEEDBACK_WHITE}]

\* The feedback rows the callback can draw.
FeedbackDrawn ==
    IF HistoryIndex = {}
    THEN {<< >>}
    ELSE {<<row>> : row \in ReadRow(feedback_history, attempts_used - 1)}

\* The last guess, which only the six-colour build draws.
LastGuessDrawn ==
    IF variant = "six" /\ attempts_used > 0
    THEN <<guess_history[attempts_used - 1]>>
    ELSE << >>

\* The status message.
modal_text ==
    IF variant = "six"
    THEN IF state = STATE_PAUSED THEN "Paused."
         ELSE IF state = STATE_WON THEN "You won!"
         ELSE IF state = STATE_LOST
         THEN IF total_time >= MAX_TIME_MS THEN "Time out :-("
              ELSE "No attempts left :-("
         ELSE ""
    ELSE IF state = STATE_PAUSED THEN "PAUSED"
         ELSE IF state = STATE_WON THEN "YOU WON!"
         ELSE IF state = STATE_LOST THEN "GAME OVER"
         ELSE ""

\* The hint at the Back key.
BackHint ==
    IF variant = "six"
    THEN IF modal_text # "" THEN "Exit" ELSE "Pause"
    ELSE IF state = STATE_PAUSED THEN "Exit" ELSE "Pause"

\* The label of the centre button.
CenterButton ==
    IF /\ state = STATE_PLAYING
       /\ is_guess_complete(current_guess)
       /\ is_guess_different(current_guess, guess_history, attempts_used)
    THEN "OK"
    ELSE IF state = STATE_PAUSED THEN "Resume"
    ELSE IF variant = "six" /\ state \in {STATE_WON, STATE_LOST}
    THEN "Play again"
    ELSE ""

\* Canvas with the code drawn while the game is paused, too.
CanvasCodeWhenPaused(code) ==
    {[time     |-> time_str,
      attempts |-> attempts_used,
      frame    |-> IF state = STATE_PLAYING
                   THEN {cursor_position} \cap Idx(NUM_PEGS) ELSE {},
      guess    |-> current_guess,
      last     |-> LastGuessDrawn,
      feedback |-> f,
      text     |-> modal_text,
      code     |-> IF state # STATE_PLAYING THEN <<code>> ELSE << >>,
      hint     |-> BackHint,
      button   |-> CenterButton] : f \in FeedbackDrawn}

\* The canvases the callback can produce when the secret is code: the HUD,
\* the frame at the cursor, the guess, the last attempt, the status message,
\* the code when it is revealed or the game is over, the hint and the button.
Canvas(code) ==
    {[time     |-> time_str,
      attempts |-> attempts_used,
      frame    |-> IF state = STATE_PLAYING
                   THEN {cursor_position} \cap Idx(NUM_PEGS) ELSE {},
      guess    |-> current_guess,
      last     |-> LastGuessDrawn,
      feedback |-> f,
      text     |-> modal_text,
      code     |-> IF \/ state = STATE_REVEAL
                      \/ state = STATE_WON
                      \/ state = STATE_LOST
                   THEN <<code>> ELSE << >>,
      hint     |-> BackHint,
      button   |-> CenterButton] : f \in FeedbackDrawn}

draw_callback == Canvas(secret_code)

\* ------------------------------------------------- the scoring on its own
\* evaluate_guess applied once, through the OK key, to every complete guess
\* and every secret of EvalPegs pegs over EvalColors colours (secrets with
\* repeated colours included, as COLOR_REPEAT allows them).
EvalCodes == [Idx(EvalPegs) -> 1 .. EvalColors]

InitEval ==
    /\ variant \in Variants
    /\ state = STATE_PLAYING
    /\ cursor_position = 0
    /\ attempts_used = 0
    /\ now = 0
    /\ start_time = now
    /\ elapsed_time = 0
    /\ guess_history = [a \in Idx(MAX_ATTEMPTS) |-> [i \in Idx(EvalPegs) |-> COLOR_NONE]]
    /\ feedback_history = [a \in Idx(MAX_ATTEMPTS) |-> [i \in Idx(EvalPegs) |-> FEEDBACK_NONE]]
    /\ current_guess \in EvalCodes
    /\ secret_code \in EvalCodes
    /\ running = TRUE
    /\ pc = "get"
    /\ resets = 0
    /\ gen = GenIdle
    /\ marks = << >>
    /\ played = 0

NextEval == PressOk

SpecEval == InitEval /\ [][NextEval]_vars

\* ------------------------------------- the secret generation on its own
\* generate_secret_code run on the zeroed state, for every number of pegs up
\* to GenPegs, every number of colours up to GenColors, with and without
\* COLOR_REPEAT, and every value rand() returns.
InitGen ==
    /\ variant \in Variants
    /\ state = STATE_PLAYING
    /\ cursor_position = 0
    /\ attempts_used = 0
    /\ now = 0
    /\ start_time = now
    /\ elapsed_time = 0
    /\ current_guess = [i \in Idx(NUM_PEGS) |-> COLOR_NONE]
    /\ guess_history = [a \in Idx(MAX_ATTEMPTS) |-> [i \in Idx(NUM_PEGS) |-> COLOR_NONE]]
    /\ feedback_history = [a \in Idx(MAX_ATTEMPTS) |-> [i \in Idx(NUM_PEGS) |-> FEEDBACK_NONE]]
    /\ \E p \in 1 .. GenPegs : secret_code = [i \in Idx(p) |-> COLOR_NONE]
    /\ \E n \in 1 .. GenColors, r \in BOOLEAN : gen = GenStart(n, r)
    /\ running = TRUE
    /\ pc = "get"
    /\ resets = 0
    /\ marks = << >>
    /\ played = 0

NextGen == GenDraw

SpecGen == InitGen /\ [][NextGen]_vars

\* --------------------------------------------- pausing and resuming
\* The game with the clock noted at start-up and at each pause and resume,
\* under the events that pause and resume it (short Back, OK), the passes of
\* the main loop without an event, its time-limit check and the clock.
InitPause ==
    /\ variant \in Variants
    /\ state = STATE_PLAYING
    /\ cursor_position = 0
    /\ attempts_used = 0
    /\ now \in Idx(TickWrap)
    /\ start_time = now
    /\ elapsed_time = 0
    /\ current_guess = [i \in Idx(NUM_PEGS) |-> COLOR_NONE]
    /\ guess_history = [a \in Idx(MAX_ATTEMPTS) |-> [i \in Idx(NUM_PEGS) |-> COLOR_NONE]]
    /\ feedback_history = [a \in Idx(MAX_ATTEMPTS) |-> [i \in Idx(NUM_PEGS) |-> FEEDBACK_NONE]]
    /\ secret_code \in generate_secret_code
    /\ running = TRUE
    /\ pc = "get"
    /\ resets = 0
    /\ gen = GenIdle
    /\ marks = <<now>>
    /\ played = 0

NextPause ==
    \/ PressBack
    \/ PressOk
    \/ NoEvent
    \/ TimeCheck
    \/ Tick

SpecPause == InitPause /\ [][NextPause]_vars

\* ------------------------------------------------- the game store by store
\* The draw callback runs on the GUI's thread and reads the game without a
\* lock, so it can run between two stores of a handler.  Here the handlers
\* that store more than one field take a step per store, in the order of the
\* source, and pc also says which store of a handler is due; the other
\* handlers are as before.  A handler is over well within a clock tick.

\* Short Back up to its first store: leave when paused, or the new phase.
BackState ==
    /\ pc = "get" /\ Frame
    /\ IF state = STATE_PAUSED
       THEN running' = FALSE /\ pc' = "check" /\ UNCHANGED state
       ELSE IF state = STATE_PLAYING
       THEN state' = STATE_PAUSED /\ pc' = "back_time" /\ UNCHANGED running
       ELSE pc' = "check" /\ UNCHANGED <<state, running>>
    /\ UNCHANGED <<secret_code, current_guess, cursor_position, attempts_used,
                   start_time, elapsed_time, guess_history, feedback_history,
                   resets>>
    /\ Logged

\* Short Back, its second store: the stretch played is added.
BackTime ==
    /\ pc = "back_time" /\ pc' = "check" /\ Frame
    /\ elapsed_time' = U32(elapsed_time + U32(now - start_time))
    /\ UNCHANGED <<state, secret_code, current_guess, cursor_position,
                   attempts_used, start_time, guess_history, feedback_history,
                   running, resets>>
    /\ Logged

\* OK up to its first store of the phase.  A submission records the attempt
\* (evaluate_guess up to attempts_used++); resume and return from the revealed
\* code store the phase; so does the restart of the six-colour build.
OkFirst ==
    /\ pc = "get" /\ Frame
    /\ IF CanSubmit
       THEN LET L   == Score(current_guess, secret_code)
                won == IsWin(current_guess, secret_code)
            IN  /\ feedback_history' =
                       [feedback_history EXCEPT ![attempts_used] = L.fb]
                /\ guess_history' =
                       [guess_history EXCEPT ![attempts_used] = current_guess]
                /\ attempts_used' = attempts_used + 1
                /\ pc' = IF PhaseAfterGuess(won, attempts_used + 1) # state
                         THEN "ok_state" ELSE "check"
                /\ UNCHANGED state
       ELSE IF state = STATE_PAUSED \/ state = STATE_REVEAL
       THEN /\ state' = STATE_PLAYING
            /\ pc' = "start"
            /\ UNCHANGED <<attempts_used, guess_history, feedback_history>>
       ELSE IF variant = "six" /\ (state = STATE_WON \/ state = STATE_LOST)
       THEN /\ resets < MaxResets
            /\ state' = STATE_PLAYING
            /\ pc' = "ok_reset"
            /\ UNCHANGED <<attempts_used, guess_history, feedback_history>>
       ELSE /\ pc' = "check"
            /\ UNCHANGED <<state, attempts_used, guess_history, feedback_history>>
    /\ UNCHANGED <<secret_code, current_guess, cursor_position, start_time,
                   elapsed_time, running, resets>>
    /\ Logged

\* evaluate_guess, the store of the phase when the game is won or lost.
OkState ==
    /\ pc = "ok_state" /\ pc' = "ok_time" /\ Frame
    /\ state' = PhaseAfterGuess(IsWin(current_guess, secret_code), attempts_used)
    /\ UNCHANGED <<secret_code, current_guess, cursor_position, attempts_used,
                   start_time, elapsed_time, guess_history, feedback_history,
                   running, resets>>
    /\ Logged

\* evaluate_guess, the store of the time when the game is won or lost.
OkTime ==
    /\ pc = "ok_time" /\ pc' = "check" /\ Frame
    /\ elapsed_time' = U32(elapsed_time + U32(now - start_time))
    /\ UNCHANGED <<state, secret_code, current_guess, cursor_position,
                   attempts_used, start_time, guess_history, feedback_history,
                   running, resets>>
    /\ Logged

\* The second store of resume, of the return from the revealed code and of
\* hiding the code: the clock starts anew.
StartStore ==
    /\ pc = "start" /\ pc' = "check" /\ Frame
    /\ start_time' = now
    /\ UNCHANGED <<state, secret_code, current_guess, cursor_position,
                   attempts_used, elapsed_time, guess_history, feedback_history,
                   running, resets>>
    /\ Logged

\* The restart after its store of the phase: cursor, attempts, times, guess
\* and secret, taken as one step.
OkReset ==
    /\ pc = "ok_reset" /\ pc' = "check" /\ Frame
    /\ cursor_position' = 0
    /\ attempts_used' = 0
    /\ start_time' = now
    /\ elapsed_time' = 0
    /\ current_guess' = [i \in Idx(NUM_PEGS) |-> COLOR_NONE]
    /\ secret_code' \in generate_secret_code
    /\ resets' = resets + 1
    /\ UNCHANGED <<state, guess_history, feedback_history, running>>
    /\ Logged

\* Long OK up to its first store: the time when the code is revealed, the
\* phase when it is hidden again.
LongOkFirst ==
    /\ pc = "get" /\ Frame
    /\ IF state = STATE_PLAYING
       THEN /\ elapsed_time' = U32(elapsed_time + U32(now - start_time))
            /\ pc' = "long_state"
            /\ UNCHANGED state
       ELSE IF state = STATE_REVEAL
       THEN /\ state' = STATE_PLAYING
            /\ pc' = "start"
            /\ UNCHANGED elapsed_time
       ELSE /\ pc' = "check"
            /\ UNCHANGED <<state, elapsed_time>>
    /\ UNCHANGED <<secret_code, current_guess, cursor_position, attempts_used,
                   start_time, guess_history, feedback_history, running, resets>>
    /\ Logged

\* Long OK in phase Playing, its second store: the phase.
LongOkState ==
    /\ pc = "long_state" /\ pc' = "check" /\ Frame
    /\ state' = STATE_REVEAL
    /\ UNCHANGED <<secret_code, current_guess, cursor_position, attempts_used,
                   start_time, elapsed_time, guess_history, feedback_history,
                   running, resets>>
    /\ Logged

\* The time-limit check up to its first store, the phase.
LimitState ==
    /\ pc = "check" /\ Frame
    /\ IF state = STATE_PLAYING /\ current_time >= MAX_TIME_MS
       THEN state' = STATE_LOST /\ pc' = "limit_time"
       ELSE pc' = (IF running THEN "get" ELSE "done") /\ UNCHANGED state
    /\ UNCHANGED <<secret_code, current_guess, cursor_position, attempts_used,
                   start_time, elapsed_time, guess_history, feedback_history,
                   running, resets>>
    /\ Logged

\* The time-limit check, its second store, and the loop condition.
LimitTime ==
    /\ pc = "limit_time" /\ Frame
    /\ pc' = IF running THEN "get" ELSE "done"
    /\ elapsed_time' = MAX_TIME_MS
    /\ UNCHANGED <<state, secret_code, current_guess, cursor_position,
                   attempts_used, start_time, guess_history, feedback_history,
                   running, resets>>
    /\ Logged

\* The clock between two handlers.
TickBetween ==
    /\ pc \in {"get", "check"}
    /\ Tick

NextRace ==
    \/ BackState
    \/ BackTime
    \/ PressLeft
    \/ PressRight
    \/ PressUp
    \/ PressDown
    \/ OkFirst
    \/ OkState
    \/ OkTime
    \/ StartStore
    \/ OkReset
    \/ LongBack
    \/ LongOkFirst
    \/ LongOkState
    \/ NoEvent
    \/ LimitState
    \/ LimitTime
    \/ TickBetween

SpecRace == Init /\ [][NextRace]_vars

\* ------------------------------------------------- the game that goes on
\* The game with the keys that change the phase and the Up key, from the
\* states in which the player has coloured every slot but the first and the
\* cursor is back on the first slot before the clock has moved.  The main
\* loop goes on: furi_message_queue_get returns within 100 ms, with an event
\* or without, every handler returns, and then the time-limit check runs;
\* and the clock goes on.
InitLive ==
    /\ variant \in Variants
    /\ state = STATE_PLAYING
    /\ cursor_position = 0
    /\ attempts_used = 0
    /\ now \in Idx(TickWrap)
    /\ start_time = now
    /\ elapsed_time = 0
    /\ current_guess \in {g \in [Idx(NUM_PEGS) -> 0 .. NUM_COLORS] :
                             \A i \in Idx(NUM_PEGS) :
                                 (g[i] = COLOR_NONE) <=> (i = 0)}
    /\ guess_history = [a \in Idx(MAX_ATTEMPTS) |-> [i \in Idx(NUM_PEGS) |-> COLOR_NONE]]
    /\ feedback_history = [a \in Idx(MAX_ATTEMPTS) |-> [i \in Idx(NUM_PEGS) |-> FEEDBACK_NONE]]
    /\ secret_code \in generate_secret_code
    /\ running = TRUE
    /\ pc = "get"
    /\ resets = 0
    /\ gen = GenIdle
    /\ marks = << >>
    /\ played = 0

\* Some event, or none, is handled.
HandleLive ==
    \/ PressBack
    \/ PressUp
    \/ PressOk
    \/ LongBack
    \/ LongOk
    \/ NoEvent

NextLive ==
    \/ HandleLive
    \/ TimeCheck
    \/ Tick

SpecLive ==
    /\ InitLive
    /\ [][NextLive]_vars
    /\ WF_vars(HandleLive)
    /\ WF_vars(TimeCheck)
    /\ WF_vars(Tick)

\* ======================================================== the claims
\* How many entries of array a equal v.
CountOf(a, v) == Cardinality({i \in DOMAIN a : a[i] = v})
Pegs(row) == CountOf(row, FEEDBACK_BLACK) + CountOf(row, FEEDBACK_WHITE)
Min(a, b) == IF a <= b THEN a ELSE b
\* The sum, over the colours of cs, of min(count in G, count in S).
RECURSIVE SumMin(_, _, _)
SumMin(cs, G, S) ==
    IF cs = {} THEN 0
    ELSE LET c == CHOOSE x \in cs : TRUE
         IN  Min(CountOf(G, c), CountOf(S, c)) + SumMin(cs \ {c}, G, S)
ColoursOf(a) == {a[i] : i \in DOMAIN a}
\* The attempt the scoring specification records.
Scored == attempts_used = 1 /\ pc = "check"

\* C1: for every all-coloured guess G and every secret S, the feedback row
\* evaluate_guess writes has black + white <= P (and every peg it writes lands
\* in the row), and black = P exactly when G = S.
C1_ScoreBounds ==
    Scored =>
        LET fb == feedback_history[0]
            G  == guess_history[0]
            S  == secret_code
        IN  /\ Pegs(fb) <= Size(S)
            /\ Score(G, S).idx = Pegs(fb)
            /\ (CountOf(fb, FEEDBACK_BLACK) = Size(S)) <=> (G = S)

\* The guess that equals the secret has been scored all black.
C1_Witness ==
    /\ Scored
    /\ guess_history[0] = secret_code
    /\ CountOf(feedback_history[0], FEEDBACK_BLACK) = EvalPegs

\* The example of the documentation: secret Red Green Blue Yellow, guess
\* Green Red Blue Purple.
ExampleSecret == Arr(<<1, 2, 3, 4>>)
ExampleGuess == Arr(<<2, 1, 3, 5>>)

\* C2: the feedback pegs (black plus white) of a scored guess number the sum
\* over all colours c of min(count of c in the guess, count of c in the
\* secret); the documentation's example scores 1 black and 2 white.
C2_PegTotal ==
    /\ Scored =>
           Pegs(feedback_history[0]) =
               SumMin(ColoursOf(guess_history[0]) \cup ColoursOf(secret_code),
                      guess_history[0], secret_code)
    /\ CountOf(Score(ExampleGuess, ExampleSecret).fb, FEEDBACK_BLACK) = 1
    /\ CountOf(Score(ExampleGuess, ExampleSecret).fb, FEEDBACK_WHITE) = 2

\* A scored guess with a colour that occurs more often in the guess than in
\* the secret, and in the secret only away from where the guess has it.
C2_Witness ==
    /\ Scored
    /\ \E c \in ColoursOf(secret_code) :
          /\ CountOf(guess_history[0], c) > CountOf(secret_code, c)
          /\ \A i \in DOMAIN secret_code :
                 secret_code[i] = c => guess_history[0][i] # c
    /\ CountOf(feedback_history[0], FEEDBACK_WHITE) >= 1

\* C4: no double counting within one attempt: no guess slot writes more than
\* one peg (so none writes a black and a white one), and no secret slot is
\* matched by more than one peg.  The pegs are those of the stored row.
C4_NoDoubleCount ==
    Scored =>
        LET L == Score(guess_history[0], secret_code)
        IN  /\ L.fb = feedback_history[0]
            /\ Len(L.log) = Pegs(feedback_history[0])
            /\ \A k \in 1 .. Len(L.log) : feedback_history[0][k - 1] = L.log[k][1]
            /\ \A a, b \in 1 .. Len(L.log) :
                   a # b => /\ L.log[a][2] # L.log[b][2]
                            /\ L.log[a][3] # L.log[b][3]

\* A scored guess with an exact match whose colour the secret holds a second
\* time, at a slot the guess misses: the black slot's colour could match again.
C4_Witness ==
    /\ Scored
    /\ \E i, j \in DOMAIN secret_code :
          /\ i # j
          /\ guess_history[0][i] = secret_code[i]
          /\ secret_code[j] = secret_code[i]
          /\ guess_history[0][j] # secret_code[j]

\* ------------------------------------------------------- the game
\* The slots where a recorded guess equals the secret.
ExactSlots(i) == {k \in DOMAIN secret_code : guess_history[i][k] = secret_code[k]}
\* The last recorded attempt is the secret.
LastIsSecret ==
    /\ attempts_used >= 1
    /\ \A k \in DOMAIN secret_code :
           guess_history[attempts_used - 1][k] = secret_code[k]
\* Everything the game keeps but the loop's position.
game == <<variant, state, secret_code, current_guess, cursor_position,
          attempts_used, start_time, elapsed_time, guess_history,
          feedback_history, running, now, resets>>

\* C3: in every reachable state, every recorded attempt i < attempts_used has
\* as many FEEDBACK_BLACK entries in feedback_history[i] as there are slots k
\* with guess_history[i][k] = secret_code[k].
C3_BlackCount ==
    \A i \in Idx(MAX_ATTEMPTS) :
        i < attempts_used =>
            CountOf(feedback_history[i], FEEDBACK_BLACK) = Cardinality(ExactSlots(i))

\* Two attempts are recorded, one with no exact match and one with exactly one.
C3_Witness ==
    /\ attempts_used >= 2
    /\ \E i, j \in Idx(attempts_used) :
          /\ Cardinality(ExactSlots(i)) = 0
          /\ Cardinality(ExactSlots(j)) = 1
          /\ CountOf(feedback_history[j], FEEDBACK_BLACK) = 1

\* C5: in every reachable state, the phase is Won exactly when an attempt is
\* recorded and the last recorded guess equals the secret in every slot; its
\* feedback is then P black and no white.
C5_WonIff ==
    /\ (state = STATE_WON) <=> LastIsSecret
    /\ state = STATE_WON =>
          /\ CountOf(feedback_history[attempts_used - 1], FEEDBACK_BLACK) = NUM_PEGS
          /\ CountOf(feedback_history[attempts_used - 1], FEEDBACK_WHITE) = 0

\* Won with the second attempt or a later one.
C5_Witness ==
    /\ state = STATE_WON
    /\ attempts_used >= 2
    /\ LastIsSecret

\* The time played: running on in phase Playing, frozen in elapsed_time otherwise.
Accrued ==
    IF state = STATE_PLAYING
    THEN U32(elapsed_time + U32(now - start_time))
    ELSE elapsed_time
\* All attempts are used and the last one is not the secret.
OutOfAttempts == attempts_used = MAX_ATTEMPTS /\ ~LastIsSecret

\* C6 as claimed, in the phases that freeze the time: the phase is Lost
\* exactly when all attempts are used without a win or the time played is at
\* least MAX_TIME_MS, so that no Won, Paused or Revealing state holds a time
\* >= MAX_TIME_MS.
C6_LostIffClaimed ==
    state # STATE_PLAYING =>
        ((state = STATE_LOST) <=> (OutOfAttempts \/ Accrued >= MAX_TIME_MS))

\* C6, amended: the phase is Lost exactly when all attempts are used without
\* a win or the time-limit check has found the time played >= MAX_TIME_MS
\* (and stored MAX_TIME_MS).  The phase becomes Lost only by the submission of
\* the last attempt or by that check, and the check never lets a Playing
\* phase pass with the time up; a handler that runs after the limit and
\* before the check still leaves Paused, Revealing or Won.
C6_LostIff ==
    /\ [](state = STATE_LOST => (OutOfAttempts \/ elapsed_time = MAX_TIME_MS))
    /\ [](OutOfAttempts => state = STATE_LOST)
    /\ [][ (state # STATE_LOST /\ state' = STATE_LOST)
           => \/ /\ pc = "get"
                 /\ attempts_used' = attempts_used + 1
                 /\ attempts_used' = MAX_ATTEMPTS
                 /\ current_guess # secret_code
              \/ /\ pc = "check"
                 /\ state = STATE_PLAYING
                 /\ Accrued >= MAX_TIME_MS ]_vars
    /\ [][ (pc = "check" /\ pc' # "check" /\ state = STATE_PLAYING
                         /\ Accrued >= MAX_TIME_MS)
           => state' = STATE_LOST ]_vars

\* Lost by the time limit after a pause, with attempts left.
C6_Witness ==
    /\ state = STATE_LOST
    /\ elapsed_time = MAX_TIME_MS
    /\ attempts_used >= 1
    /\ attempts_used < MAX_ATTEMPTS
    /\ start_time # 0

\* C7: the accepted submission that records the MAX_ATTEMPTS-th attempt leaves
\* the phase Lost when the guess is not the secret and Won when it is, at the
\* end of that handler, the time-limit check of the pass not yet run.
C7_LostOnSubmit ==
    [][ (pc = "get" /\ attempts_used' = attempts_used + 1
                    /\ attempts_used' = MAX_ATTEMPTS)
        => /\ pc' = "check"
           /\ state' = IF \A k \in DOMAIN secret_code :
                              current_guess[k] = secret_code[k]
                       THEN STATE_WON
                       ELSE STATE_LOST ]_vars

\* Lost by the last attempt, before the check of that pass, within the time.
C7_Witness ==
    /\ pc = "check"
    /\ state = STATE_LOST
    /\ attempts_used = MAX_ATTEMPTS
    /\ ~LastIsSecret
    /\ elapsed_time < MAX_TIME_MS

\* C8: the time-limit check that runs in phase Playing with
\* elapsed_time + (now - start_time) >= MAX_TIME_MS sets the phase Lost and
\* elapsed_time to MAX_TIME_MS, whatever the guess, the cursor and the
\* attempts; otherwise it changes neither, and it never changes anything else.
C8_TimeCheck ==
    [][ (pc = "check" /\ pc' # "check")
        => /\ IF state = STATE_PLAYING
                 /\ U32(elapsed_time + U32(now - start_time)) >= MAX_TIME_MS
              THEN state' = STATE_LOST /\ elapsed_time' = MAX_TIME_MS
              ELSE UNCHANGED <<state, elapsed_time>>
           /\ UNCHANGED <<secret_code, current_guess, cursor_position,
                          attempts_used, start_time, guess_history,
                          feedback_history>> ]_vars

\* Lost by the time limit with no attempt recorded, the cursor moved and a
\* slot coloured.
C8_Witness ==
    /\ state = STATE_LOST
    /\ elapsed_time = MAX_TIME_MS
    /\ attempts_used = 0
    /\ cursor_position > 0
    /\ \E i \in DOMAIN current_guess : current_guess[i] # COLOR_NONE

\* The current guess has every slot coloured; it repeats the last attempt.
GuessFull == \A i \in DOMAIN current_guess : current_guess[i] # COLOR_NONE
RepeatsLast ==
    /\ attempts_used > 0
    /\ \A i \in DOMAIN current_guess :
           current_guess[i] = guess_history[attempts_used - 1][i]

\* C9: an OK press in phase Playing with a complete guess that repeats the
\* last recorded attempt changes nothing; a complete guess that differs from
\* the last recorded attempt (whatever older attempts hold), or any complete
\* guess when no attempt is recorded, is recorded as the next attempt.
C9_RepeatRejected ==
    [][ (PressOk /\ state = STATE_PLAYING /\ GuessFull)
        => IF RepeatsLast
           THEN UNCHANGED game
           ELSE /\ attempts_used' = attempts_used + 1
                /\ guess_history'[attempts_used] = current_guess ]_vars

\* The game is on after an OK press, and the complete current guess is the
\* last recorded attempt, which differs from the one before.
C9_Witness ==
    /\ pc = "check"
    /\ state = STATE_PLAYING
    /\ attempts_used = 2
    /\ GuessFull /\ RepeatsLast
    /\ guess_history[0] # guess_history[1]

\* C10: an OK press in phase Playing while a slot of the current guess is
\* COLOR_NONE changes nothing (phase, attempts, history, guess, cursor), and
\* no recorded attempt ever holds COLOR_NONE.
C10_IncompleteIgnored ==
    /\ [](\A a \in Idx(MAX_ATTEMPTS) :
              a < attempts_used =>
                  \A k \in DOMAIN guess_history[a] : guess_history[a][k] # COLOR_NONE)
    /\ [][ (PressOk /\ state = STATE_PLAYING /\ ~GuessFull)
           => UNCHANGED game ]_vars

\* The game is on after an event, an attempt is recorded, and the current
\* guess has its first slot coloured and another slot empty.
C10_Witness ==
    /\ pc = "check"
    /\ state = STATE_PLAYING
    /\ attempts_used >= 1
    /\ current_guess[0] # COLOR_NONE
    /\ \E i \in DOMAIN current_guess : current_guess[i] = COLOR_NONE

\* ------------------------------------------------- phases and restart
\* What the game keeps of the round: cursor, guess, history, attempts, secret.
Data == <<cursor_position, current_guess, guess_history, feedback_history,
          attempts_used, secret_code>>
\* The phase is Won or Lost.
Over == state \in {STATE_WON, STATE_LOST}
\* The OK key restarts the round: the six-colour build, game over.
OkRestarts == variant = "six" /\ Over
NoGuess == [i \in Idx(NUM_PEGS) |-> COLOR_NONE]

ResetStep == Next /\ resets' = resets + 1 /\ state' = STATE_PLAYING

\* C12: in every phase, when the main loop waits for an event (and the run
\* has a restart left), some event restarts the round and leaves the phase
\* Playing.
C12_ResetAnywhere ==
    (pc = "get" /\ resets < MaxResets) => ENABLED ResetStep

\* C13: the restart (OK handled in Won or Lost, six-colour build) leaves the
\* phase Playing, a secret generate_secret_code can return, no attempt, every
\* slot of the current guess COLOR_NONE, the cursor at 0, the stored time 0
\* and the clock restarted (no time played); every secret the generation can
\* return is one the restart can leave.
C13_ResetFresh ==
    /\ [][ resets' = resets + 1
           => /\ pc = "get" /\ OkRestarts
              /\ state' = STATE_PLAYING
              /\ secret_code' \in generate_secret_code
              /\ attempts_used' = 0
              /\ current_guess' = NoGuess
              /\ cursor_position' = 0
              /\ elapsed_time' = 0
              /\ start_time' = now'
              /\ Accrued' = 0 ]_vars
    /\ []((pc = "get" /\ OkRestarts /\ resets < MaxResets)
            => \A c \in generate_secret_code :
                   ENABLED (PressOk /\ resets' = resets + 1 /\ secret_code' = c))

\* The round has been restarted by the last event; the rows of the round
\* before are still in the history array.
C13_Witness ==
    /\ pc = "check"
    /\ resets = 1
    /\ state = STATE_PLAYING
    /\ attempts_used = 0
    /\ current_guess = NoGuess
    /\ cursor_position = 0
    /\ elapsed_time = 0
    /\ start_time = now
    /\ guess_history[0] # NoGuess

\* C14: from phase Won or Lost, no step of the program but the restart
\* changes the phase, the history, attempts_used or the secret.
C14_Terminal ==
    [][ (Over /\ resets' = resets)
        => UNCHANGED <<state, guess_history, feedback_history, attempts_used,
                       secret_code>> ]_vars

\* Won, and the main loop has been through its time-limit check since, with
\* the clock past the time limit.
C14_Witness ==
    /\ state = STATE_WON
    /\ pc = "get"
    /\ U32(now - start_time) >= MAX_TIME_MS

\* C15: a step that enters phase Revealing starts in Playing, and a step that
\* leaves Revealing ends in Playing.
C15_RevealOverlay ==
    [][ /\ (state # STATE_REVEAL /\ state' = STATE_REVEAL) => state = STATE_PLAYING
        /\ (state = STATE_REVEAL /\ state' # STATE_REVEAL) => state' = STATE_PLAYING
      ]_vars

\* The code is revealed after an attempt and some time played.
C15_Witness ==
    /\ state = STATE_REVEAL
    /\ pc = "check"
    /\ attempts_used >= 1
    /\ elapsed_time > 0

\* C16: in every reachable state 0 <= attempts_used <= MAX_ATTEMPTS; a guess
\* that can be submitted has a free row of the history to go to; and with
\* MAX_ATTEMPTS attempts recorded the phase is Won or Lost, OK does not
\* submit, and no event records a further attempt.
C16_AttemptCap ==
    /\ attempts_used \in 0 .. MAX_ATTEMPTS
    /\ CanSubmit => attempts_used < MAX_ATTEMPTS
    /\ attempts_used = MAX_ATTEMPTS =>
          /\ Over
          /\ ~CanSubmit
          /\ ~ENABLED (Next /\ attempts_used' > attempts_used)

\* All attempts are used, the last one lost the game, and the main loop
\* waits for the next event with a complete guess in place.
C16_Witness ==
    /\ attempts_used = MAX_ATTEMPTS
    /\ state = STATE_LOST
    /\ pc = "get"
    /\ GuessFull

\* ------------------------------------------------- the secret generation
\* No two slots of a hold the same colour.
Distinct(a) == \A j, k \in DOMAIN a : j # k => a[j] # a[k]
\* a is a code over the colours 1..n, without a repeat unless r allows it.
WellFormed(a, n, r) ==
    /\ \A k \in DOMAIN a : a[k] \in 1 .. n /\ a[k] # COLOR_NONE
    /\ ~r => Distinct(a)

\* C17: when generate_secret_code has returned, whatever rand() returned,
\* every slot of the secret has been written and holds a colour of 1..N, none
\* COLOR_NONE, and without COLOR_REPEAT no two slots hold the same colour.
\* With the game's sizes the secret is one of those the game starts and
\* restarts with, each of which is such a code.
C17_SecretWellFormed ==
    /\ gen.pc = "done" =>
          /\ gen.i = Size(secret_code)
          /\ WellFormed(secret_code, gen.N, gen.rep)
          /\ (gen.N = NUM_COLORS /\ gen.rep = COLOR_REPEAT
                                 /\ Size(secret_code) = NUM_PEGS)
                 => secret_code \in generate_secret_code
    /\ \A s \in generate_secret_code :
          DOMAIN s = Idx(NUM_PEGS) /\ WellFormed(s, NUM_COLORS, COLOR_REPEAT)

\* A secret of two pegs over three colours has been returned, repeats
\* excluded, its second slot holding the lower colour.
C17_Witness ==
    /\ gen.pc = "done"
    /\ ~gen.rep
    /\ gen.N = 3
    /\ Size(secret_code) = 2
    /\ secret_code[1] < secret_code[0]

\* C18: without COLOR_REPEAT and with fewer colours than pegs,
\* generate_secret_code ends with an error: it is never left with a slot to
\* fill and every colour used, unless it has stopped with the error.
C18_FailsLoudly ==
    (/\ gen.pc # "idle"
     /\ ~gen.rep
     /\ gen.N < Size(secret_code)
     /\ gen.i < Size(secret_code)
     /\ \A c \in 1 .. gen.N : gen.used[c])
        => gen.pc = "error"

\* ------------------------------------------------- the guess after OK
\* C19: a step that records an attempt leaves the current guess as it was,
\* slot by slot the guess it recorded, whether the phase it leaves is
\* Playing, Won or Lost.
C19_GuessKept ==
    [][ attempts_used' = attempts_used + 1
        => /\ current_guess' = current_guess
           /\ \A k \in DOMAIN current_guess :
                  current_guess'[k] = guess_history'[attempts_used][k]
           /\ state' \in {STATE_PLAYING, STATE_WON, STATE_LOST} ]_vars

\* The first attempt has just been recorded, the game goes on, and the
\* current guess is that attempt.
C19_Witness ==
    /\ pc = "check"
    /\ state = STATE_PLAYING
    /\ attempts_used = 1
    /\ GuessFull
    /\ current_guess = guess_history[0]
    /\ current_guess # secret_code

\* ------------------------------------------------- the paused time
\* C20: with the round started at marks[1], paused at marks[2], resumed at
\* marks[3] and paused again at marks[4], no other event handled in between
\* and no restart, the phase is Paused and the stored elapsed time is
\* (marks[2] - marks[1]) + (marks[4] - marks[3]) in the clock's arithmetic.
C20_PausedExcluded ==
    Len(marks) = 4
        => /\ resets = 0
           /\ state = STATE_PAUSED
           /\ elapsed_time = U32(U32(marks[2] - marks[1]) + U32(marks[4] - marks[3]))

\* Paused for the second time, each of the three intervals lasting.
C20_Witness ==
    /\ Len(marks) = 4
    /\ resets = 0
    /\ state = STATE_PAUSED
    /\ marks[2] # marks[1]
    /\ marks[3] # marks[2]
    /\ marks[4] # marks[3]


\* C21: the time reported to the renderer is the time that passed in phase
\* Playing since the round began, capped at the time limit.  So it stands
\* still while the game is paused, revealing, won or lost, however far the
\* clock advances, and the time spent revealing is not added afterwards.
C21_TimeOnlyPlaying ==
    total_time = Min(played, MAX_TIME_MS)

\* The code is revealed after one tick of play and the clock has advanced
\* two ticks since start_time was set: the reported time is still one tick.
C21_Witness ==
    /\ state = STATE_REVEAL
    /\ played = 1
    /\ total_time = 1
    /\ U32(now - start_time) = 2

\* C22: the cursor is always a slot of the guess, 0 <= cursor < NUM_PEGS.
\* In phase Playing, Left at slot 0 and Right at the last slot leave it
\* where it is, and every other Left or Right moves it by exactly one slot.
C22_CursorClamped ==
    /\ [](cursor_position \in Idx(NUM_PEGS))
    /\ [][PressLeft /\ state = STATE_PLAYING =>
            cursor_position' = IF cursor_position = 0
                               THEN cursor_position
                               ELSE cursor_position - 1]_vars
    /\ [][PressRight /\ state = STATE_PLAYING =>
            cursor_position' = IF cursor_position = NUM_PEGS - 1
                               THEN cursor_position
                               ELSE cursor_position + 1]_vars

\* The cursor is on the last slot, where Right has moved it, and the next
\* key is awaited in phase Playing.
C22_Witness ==
    /\ state = STATE_PLAYING
    /\ pc = "get"
    /\ cursor_position = NUM_PEGS - 1

\* The colour after k presses of Up.
RECURSIVE Ups(_, _)
Ups(c, k) == IF k = 0 THEN c ELSE Ups(NextColor(c), k - 1)

\* C23: the colours of a slot cycle over none, 1 .. NUM_COLORS.  In phase
\* Playing Up takes the slot under the cursor from c to c + 1 and from
\* NUM_COLORS to none, Down from c to c - 1 and from none to NUM_COLORS; Up
\* after Down, Down after Up and NUM_COLORS + 1 times Up give the colour back;
\* every slot stays within 0 .. NUM_COLORS, and the other slots and the
\* cursor are left alone.
C23_ColourCycle ==
    /\ [](\A i \in Idx(NUM_PEGS) : current_guess[i] \in 0 .. NUM_COLORS)
    /\ [](LET c == current_guess[cursor_position]
          IN  /\ PrevColor(NextColor(c)) = c
              /\ NextColor(PrevColor(c)) = c
              /\ Ups(c, NUM_COLORS + 1) = c)
    /\ [][PressUp /\ state = STATE_PLAYING =>
            /\ current_guess' =
                   [i \in Idx(NUM_PEGS) |->
                       IF i # cursor_position THEN current_guess[i]
                       ELSE IF current_guess[i] = NUM_COLORS THEN COLOR_NONE
                       ELSE current_guess[i] + 1]
            /\ cursor_position' = cursor_position]_vars
    /\ [][PressDown /\ state = STATE_PLAYING =>
            /\ current_guess' =
                   [i \in Idx(NUM_PEGS) |->
                       IF i # cursor_position THEN current_guess[i]
                       ELSE IF current_guess[i] = COLOR_NONE THEN NUM_COLORS
                       ELSE current_guess[i] - 1]
            /\ cursor_position' = cursor_position]_vars

\* The last slot shows the last colour and the first slot is still empty.
C23_Witness ==
    /\ state = STATE_PLAYING
    /\ cursor_position = NUM_PEGS - 1
    /\ current_guess[NUM_PEGS - 1] = NUM_COLORS
    /\ current_guess[0] = COLOR_NONE

\* C24: when the game is won or lost, a press of Up or Down restarts the
\* game: a new round begins in phase Playing.
C24_UpDownRestarts ==
    [][(PressUp \/ PressDown) /\ Over =>
          resets' = resets + 1 /\ state' = STATE_PLAYING]_vars

\* The codes a secret can be.
Codes == [Idx(NUM_PEGS) -> 1 .. NUM_COLORS]

\* C25: the renderer gets the secret only while the code is revealed or the
\* game is won or lost.  In phases Playing and Paused the canvas does not
\* depend on the secret: a session that differs from this one in nothing but
\* its secret gets the same canvas.
C25_SecretHidden ==
    IF state \in {STATE_PLAYING, STATE_PAUSED}
    THEN LET drawn == draw_callback
         IN  /\ \A c \in drawn : c.code = << >>
             /\ \A code \in Codes \ {secret_code} : Canvas(code) = drawn
    ELSE state \in {STATE_REVEAL, STATE_WON, STATE_LOST}

\* The game is paused after a first guess that scored a black peg.
C25_Witness ==
    /\ state = STATE_PAUSED
    /\ attempts_used = 1
    /\ \E i \in Idx(NUM_PEGS) : feedback_history[0][i] = FEEDBACK_BLACK

\* ------------------------------------------------- one attempt per submission
\* C26: an OK press in phase Playing with a complete guess that differs from
\* the last attempt records exactly one attempt: attempts_used grows by one,
\* the new row of guess_history is the current guess, and every other row of
\* both histories is as before.  If the guess is not the secret and
\* attempts_used is still below MAX_ATTEMPTS, the phase stays Playing and the
\* clock runs on: start_time and elapsed_time are as before.
C26_OneAttempt ==
    [][ (PressOk /\ state = STATE_PLAYING /\ GuessFull /\ ~RepeatsLast)
        => /\ attempts_used' = attempts_used + 1
           /\ guess_history'[attempts_used] = current_guess
           /\ \A a \in Idx(MAX_ATTEMPTS) \ {attempts_used} :
                  /\ guess_history'[a] = guess_history[a]
                  /\ feedback_history'[a] = feedback_history[a]
           /\ (current_guess # secret_code /\ attempts_used + 1 < MAX_ATTEMPTS)
                  => /\ state' = STATE_PLAYING
                     /\ start_time' = start_time
                     /\ elapsed_time' = elapsed_time ]_vars

\* The second attempt has just been recorded after some time of play; it
\* differs from the first and from the secret, and the game goes on.
C26_Witness ==
    /\ pc = "check"
    /\ state = STATE_PLAYING
    /\ attempts_used = 2
    /\ guess_history[1] = current_guess
    /\ guess_history[0] # guess_history[1]
    /\ current_guess # secret_code
    /\ total_time > 0

\* ------------------------------------------------- the secret stays
\* C27: the secret is written at start-up and on a restart only: every step
\* that is not a restart, in any phase, leaves all its entries as they were.
C27_SecretFixed ==
    [][resets' = resets =>
          \A i \in Idx(NUM_PEGS) : secret_code'[i] = secret_code[i]]_vars

\* The game is lost after MAX_ATTEMPTS attempts, the last of which had a
\* colour of the secret in its place, and a key has been handled since.
C27_Witness ==
    /\ state = STATE_LOST
    /\ pc = "check"
    /\ attempts_used = MAX_ATTEMPTS
    /\ \E i \in Idx(NUM_PEGS) :
           feedback_history[MAX_ATTEMPTS - 1][i] = FEEDBACK_BLACK

\* ------------------------------------------------- the draw between stores
\* C28: the handlers are atomic for the draw callback: wherever a draw falls
\* within the handling of an event, the time it computes is the time played,
\* capped at the time limit, and it never sees a phase other than Playing
\* with an elapsed time that does not yet hold the stretch just played.
C28_DrawSeesWholeSteps ==
    /\ total_time = Min(played, MAX_TIME_MS)
    /\ state # STATE_PLAYING =>
           Min(elapsed_time, MAX_TIME_MS) = Min(played, MAX_TIME_MS)

\* ------------------------------------------------- room for the next attempt
\* C29: whenever the phase is Playing, also after a resume or a return from
\* the revealed code, attempts_used is below MAX_ATTEMPTS; so whenever OK can
\* record an attempt, the row evaluate_guess writes, attempts_used, is a row
\* of both histories.
C29_PlayingHasRoom ==
    /\ state = STATE_PLAYING => attempts_used \in Idx(MAX_ATTEMPTS)
    /\ ENABLED (PressOk /\ attempts_used' = attempts_used + 1) =>
           /\ attempts_used \in DOMAIN guess_history
           /\ attempts_used \in DOMAIN feedback_history

\* The game has just gone back to Playing, after time played before, with
\* one attempt left.
C29_Witness ==
    /\ state = STATE_PLAYING
    /\ pc = "check"
    /\ attempts_used = MAX_ATTEMPTS - 1
    /\ elapsed_time > 0
    /\ start_time = now

\* ------------------------------------------------- the rows the draw reads
\* C30: in both builds and in every reachable state the draw callback reads
\* guess_history and feedback_history only at row attempts_used - 1 with
\* attempts_used >= 1: never at row -1, in particular not when the game was
\* lost by the time limit before any attempt.
C30_DrawReadsARow ==
    \A i \in HistoryIndex :
        /\ attempts_used >= 1
        /\ i = attempts_used - 1
        /\ i \in DOMAIN feedback_history

\* ------------------------------------------------- the cause of a loss
\* C31: in the six-colour build the message of a lost game names what lost
\* it: when the time-limit check ends the game the callback shows
\* "Time out :-(", and when the attempt that uses up MAX_ATTEMPTS ends it the
\* callback shows "No attempts left :-(".
C31_LossCauseShown ==
    [][(variant = "six" /\ state # STATE_LOST /\ state' = STATE_LOST) =>
          modal_text' = IF pc = "check"
                        THEN "Time out :-("
                        ELSE "No attempts left :-("]_vars

\* C32: in the six-colour build the hint at the Back key tells what a short
\* press of Back does: where the callback shows "Exit" the press ends the
\* main loop, and where it shows "Pause" the press pauses the game.
C32_BackHintKept ==
    [][(variant = "six" /\ PressBack) =>
          IF BackHint = "Exit" THEN running' = FALSE
          ELSE state' = STATE_PAUSED]_vars

\* ------------------------------------------------- every game ends
\* C33: a session that goes on and is not left paused or with the code
\* revealed for ever ends: if the main loop never stops and from some point
\* on the phase is never Paused or Reveal, then the phase becomes Won or Lost,
\* in every round, at the latest through the time-limit check.
C33_SessionEnds ==
    ([](pc # "done") /\ <>[](state \notin {STATE_PAUSED, STATE_REVEAL}))
        => []<>(state \in {STATE_WON, STATE_LOST})

\* The time-limit check has ended a game, after at least one attempt, in
\* which attempts were left.
C33_Witness ==
    /\ state = STATE_LOST
    /\ attempts_used \in 1 .. MAX_ATTEMPTS - 1
    /\ elapsed_time = MAX_TIME_MS
    /\ played >= MAX_TIME_MS

====
